---- MODULE Spec2Model ----
(***************************************************************************)
(* A model of codec/encode.go: the extension registry (encHandle), the     *)
(* buffer-backed and stream-backed byte sinks (bytesEncWriter,             *)
(* ioEncWriter), the time payload layout (encodeTime) and the value        *)
(* traversal of Encoder (Encode, encode, encodeValue, encStruct).          *)
(***************************************************************************)
EXTENDS Integers, Sequences, FiniteSets, TLC

VARIABLES
    o,        \* encHandle: [extFuncs, exts, cap, isNil]
    look,     \* result of the last getEncodeExt call: [rt, tag, fn]
    last,     \* history: per type, the most recent registration [tag, fn]
    z,        \* bytesEncWriter: [b (backing array, cap(b) long), len, c, gen]
    out,      \* the caller's slice *out: [isNil, gen, len, data]
    written,  \* history: every byte written since the sink was made, in order
    wr,       \* history: the last sink operation [op, n, cap0, c0, out0]
    nops,     \* number of sink operations made
    tin,      \* the time.Time last given to encodeTime
    tout,     \* the bytes encodeTime returned for it
    h,        \* the Handle besides its registry o: [writeExt, builtin]
    enc       \* the last Encode call: its value, its sink, and what it did

vars == <<o, look, last, z, out, written, wr, nops, tin, tout, h, enc>>

encVars == <<h, enc>>

timeVars == <<tin, tout>>

regVars == <<o, look, last>>

bufVars == <<z, out, written, wr, nops>>

\* ------------------------------------------------------------------ bounds

\* Tags under which the registry scenario registers the replaced type: 1..MaxTag.
MaxTag == 2

\* Number of extension types one Handle registers before it encodes.
MaxExts == 1

\* The sink call (counted from 1) at which a stream may fail: 1..MaxFaultAt.
MaxFaultAt == 3

\* Number of sink operations (writes, flushes, aborted calls) in one scenario.
MaxOps == 3

\* ------------------------------------------------------- program constants

\* defEncByteBufSize = 1 << 6
defEncByteBufSize == 64

\* make([]encExtTypeTagFn, 0, 8)
ExtsInitCap == 8

\* helper.go (not in src/): the registry size from which the map is used.
mapAccessThreshold == 4

\* ------------------------------------------------------------ small helpers

NoType == "-"

\* A nil func value.
NilFn == "nil"

\* The type identities the registry scenario registers and removes: enough of
\* them to take the registry from empty, through the linear scan, to the map.
RegTypes == {"int", "[]int", "S", "*int", "string"}

\* The registrations of the scenario, as (type, tag): every type under tag 1,
\* and int under each of 1..MaxTag, so that a registration can replace another.
RegCalls == (RegTypes \X {1}) \cup ({"int"} \X (1..MaxTag))

\* The zero value of encExtTagFn.
ZeroExt == [fn |-> NilFn, tag |-> 0]

RECURSIVE PermsOf(_)
\* Every order in which `range` over a Go map with key set S may yield the keys.
PermsOf(S) ==
    IF S = {} THEN {<<>>}
    ELSE UNION {{<<x>> \o p : p \in PermsOf(S \ {x})} : x \in S}

\* --------------------------------------------------------- extension registry

\* The zero encHandle: both views nil.
NewEncHandle ==
    [extFuncs |-> [t \in {} |-> ZeroExt], exts |-> <<>>, cap |-> 0, isNil |-> TRUE]

\* delete(o.extFuncs, rt); if fn != nil { o.extFuncs[rt] = encExtTagFn{fn, tag} }
extFuncsAfter(m, rt, tag, fn) ==
    LET del == [t \in (DOMAIN m) \ {rt} |-> m[t]]
    IN  IF fn # NilFn
        THEN [t \in (DOMAIN del) \cup {rt} |->
                 IF t = rt THEN [fn |-> fn, tag |-> tag] ELSE del[t]]
        ELSE del

\* A plausible slip: the stale entry is not deleted, so fn = nil removes nothing.
addEncodeExtNoDelete(oo, rt, tag, fn, ks) ==
    LET m == IF fn # NilFn
             THEN [t \in (DOMAIN oo.extFuncs) \cup {rt} |->
                      IF t = rt THEN [fn |-> fn, tag |-> tag] ELSE oo.extFuncs[t]]
             ELSE oo.extFuncs
        order == IF rt \in DOMAIN m /\ fn = NilFn THEN ks \o <<rt>> ELSE ks
    IN  [extFuncs |-> m,
         exts |-> [i \in 1..Len(order) |->
                      [rt |-> order[i], fn |-> m[order[i]].fn, tag |-> m[order[i]].tag]],
         cap |-> ExtsInitCap,
         isNil |-> FALSE]

\* addEncodeExt; ks is the order in which `range o.extFuncs` yields the keys.
addEncodeExt(oo, rt, tag, fn, ks) ==
    LET cap0 == IF oo.isNil THEN ExtsInitCap ELSE oo.cap
        m0   == IF oo.isNil THEN [t \in {} |-> ZeroExt] ELSE oo.extFuncs
        m    == extFuncsAfter(m0, rt, tag, fn)
        leno == Cardinality(DOMAIN m)
        cap1 == IF leno > cap0 THEN (leno * 3) \div 2 ELSE cap0
    IN  [extFuncs |-> m,
         exts |-> [i \in 1..leno |->
                      [rt |-> ks[i], fn |-> m[ks[i]].fn, tag |-> m[ks[i]].tag]],
         cap |-> cap1,
         isNil |-> FALSE]

RECURSIVE scanExts(_, _, _)
\* for i := 0; i < l; i++ { if o.exts[i].rt == rt { return x.tag, x.fn } }
scanExts(exts, i, rt) ==
    IF i > Len(exts) THEN ZeroExt
    ELSE IF exts[i].rt = rt THEN [fn |-> exts[i].fn, tag |-> exts[i].tag]
    ELSE scanExts(exts, i + 1, rt)

\* getEncodeExt: empty, linear scan below the threshold, the map from it on.
getEncodeExt(oo, rt) ==
    LET l == Len(oo.exts)
    IN  IF l = 0 THEN ZeroExt
        ELSE IF l < mapAccessThreshold THEN scanExts(oo.exts, 1, rt)
        ELSE IF rt \in DOMAIN oo.extFuncs THEN oo.extFuncs[rt]
        ELSE ZeroExt

\* PermsOf tabulated over the key sets the scenario can build.
RegOrders == [S \in SUBSET RegTypes |-> PermsOf(S)]

NoLook == [rt |-> NoType, tag |-> 0, fn |-> NilFn]

\* The registry of a fresh handle, with no lookup made yet.
RegInit ==
    /\ o = NewEncHandle
    /\ look = NoLook
    /\ last = [t \in RegTypes |-> ZeroExt]

\* ------------------------------------------------------- buffer-backed sink

Min(a, b) == IF a < b THEN a ELSE b

\* A fresh array of n zero bytes, as make([]byte, n) yields.
Zeros(n) == [i \in 1..n |-> 0]

\* cap(z.b)
Cap(zz) == Len(zz.b)

\* copy(dst[at:at+room], src): Min(room, len(src)) bytes are copied.
CopyAt(arr, at, room, src) ==
    [i \in 1..Len(arr) |->
        IF i > at /\ i <= at + Min(room, Len(src)) THEN src[i - at] ELSE arr[i]]

\* A plausible slip: proportional growth (2*cap) that forgets the n new bytes.
growDouble(zz, n) ==
    LET c1 == zz.c + n
    IN  IF c1 > Cap(zz)
        THEN [b |-> CopyAt(Zeros(2 * Cap(zz)), 0, 2 * Cap(zz), SubSeq(zz.b, 1, Min(zz.c, 2 * Cap(zz)))),
              len |-> 2 * Cap(zz), c |-> c1, gen |-> zz.gen + 1]
        ELSE IF c1 > zz.len THEN [zz EXCEPT !.len = Cap(zz), !.c = c1]
        ELSE [zz EXCEPT !.c = c1]

\* grow: the writer after grow(n); the offset it returns is the old zz.c.
\* gen counts the arrays made: make() yields a new one.
grow(zz, n) ==
    LET c1 == zz.c + n
    IN  IF c1 > Cap(zz)
        THEN [b |-> CopyAt(Zeros(2 * Cap(zz) + n), 0, 2 * Cap(zz) + n,
                           SubSeq(zz.b, 1, zz.c)),
              len |-> 2 * Cap(zz) + n, c |-> c1, gen |-> zz.gen + 1]
        ELSE IF c1 > zz.len THEN [zz EXCEPT !.len = Cap(zz), !.c = c1]
        ELSE [zz EXCEPT !.c = c1]

\* z.b[c+k] = byte, for each byte of bs in turn (an indexed store inside len).
StoreAt(zz, c, bs) == [zz EXCEPT !.b = CopyAt(zz.b, c, Len(bs), bs)]

\* byte(v): the low eight bits.
Byte(v) == v % 256

\* A plausible slip: the two bytes of a 16-bit value in little-endian order.
bytesWriteUint16LE(zz, v) ==
    StoreAt(grow(zz, 2), zz.c, <<Byte(v), Byte(v \div 256)>>)

\* bytesEncWriter.writeUint16
bytesWriteUint16(zz, v) ==
    StoreAt(grow(zz, 2), zz.c, <<Byte(v \div 256), Byte(v)>>)

\* bytesEncWriter.writeUint32; v is given as its 16-bit limbs <<high, low>>.
bytesWriteUint32(zz, v) ==
    StoreAt(grow(zz, 4), zz.c,
            <<Byte(v[1] \div 256), Byte(v[1]), Byte(v[2] \div 256), Byte(v[2])>>)

\* bytesEncWriter.writeUint64; v is given as its 16-bit limbs, high limb first.
bytesWriteUint64(zz, v) ==
    StoreAt(grow(zz, 8), zz.c,
            <<Byte(v[1] \div 256), Byte(v[1]), Byte(v[2] \div 256), Byte(v[2]),
              Byte(v[3] \div 256), Byte(v[3]), Byte(v[4] \div 256), Byte(v[4])>>)

\* bytesEncWriter.writeb and writestr: c := grow(len(s)); copy(z.b[c:], s)
bytesWriteb(zz, s) ==
    LET g == grow(zz, Len(s))
    IN  [g EXCEPT !.b = CopyAt(g.b, zz.c, g.len - zz.c, s)]

\* bytesEncWriter.writen1 .. writen4: bs holds the 1 to 4 bytes given.
bytesWriten(zz, bs) == StoreAt(grow(zz, Len(bs)), zz.c, bs)

\* The bytes the caller sees through *out.
OutBytes == IF out.isNil THEN <<>>
            ELSE IF out.gen = z.gen THEN SubSeq(z.b, 1, out.len)
            ELSE out.data

\* The slice header of *out: its array and its length.
OutHeader(oo) == [isNil |-> oo.isNil, gen |-> oo.gen, len |-> oo.len]

\* bytesEncWriter.flush: *(z.out) = z.b[:z.c]
bytesFlush(zz) == [isNil |-> FALSE, gen |-> zz.gen, len |-> zz.c, data |-> <<>>]

\* make() gives z.b a new array: a slice still on the old one keeps its bytes.
Detach(oo, zz, zn) ==
    IF ~oo.isNil /\ oo.gen = zz.gen /\ zn.gen # zz.gen
    THEN [oo EXCEPT !.data = SubSeq(zz.b, 1, oo.len)]
    ELSE oo

\* The slices a caller may pass to NewEncoderBytes: nil, empty, and non-empty
\* ones with stale bytes, at and below their capacity.
CallerSlices ==
    { [isNil |-> TRUE,  len |-> 0, arr |-> <<>>],
      [isNil |-> FALSE, len |-> 0, arr |-> <<>>],
      [isNil |-> FALSE, len |-> 1, arr |-> <<9, 8, 7>>],
      [isNil |-> FALSE, len |-> 2, arr |-> <<9, 8>>] }

\* NewEncoderBytes: in := *out; if in == nil { in = make([]byte, 64) }; c = 0.
NewEncoderBytes(in) ==
    IF in.isNil
    THEN [b |-> Zeros(defEncByteBufSize), len |-> defEncByteBufSize, c |-> 0,
          gen |-> 0]
    ELSE [b |-> in.arr, len |-> in.len, c |-> 0, gen |-> 0]

\* *out as NewEncoderBytes leaves it: the caller's slice, untouched.
CallerOut(in) ==
    [isNil |-> in.isNil, gen |-> IF in.isNil THEN -1 ELSE 0, len |-> in.len,
     data |-> <<>>]

NoWr(oo) == [op |-> "new", n |-> 0, cap0 |-> 0, c0 |-> 0, out0 |-> OutHeader(oo)]

\* The sink variables of a scenario that makes no buffer-backed Encoder.
BufIdle ==
    /\ z = [b |-> <<>>, len |-> 0, c |-> 0, gen |-> 0]
    /\ out = [isNil |-> TRUE, gen |-> -1, len |-> 0, data |-> <<>>]
    /\ written = <<>>
    /\ wr = NoWr(out)
    /\ nops = 0

BufInit ==
    \E in \in CallerSlices :
        /\ z = NewEncoderBytes(in)
        /\ out = CallerOut(in)
        /\ written = <<>>
        /\ wr = NoWr(out)
        /\ nops = 0

\* One write through the sink: zn is the writer after it, bs the bytes given.
Wrote(op, zn, bs) ==
    /\ nops < MaxOps
    /\ z' = zn
    /\ out' = Detach(out, z, zn)
    /\ written' = written \o bs
    /\ wr' = [op |-> op, n |-> Len(bs), cap0 |-> Cap(z), c0 |-> z.c,
              out0 |-> wr.out0]
    /\ nops' = nops + 1
    /\ UNCHANGED <<regVars, timeVars, encVars>>

LongBytes == [i \in 1..40 |-> 100 + i]

WriteUint16 ==
    \E v \in {258, 65281} :
        Wrote("writeUint16", bytesWriteUint16(z, v), <<v \div 256, v % 256>>)

WriteUint32 ==
    \E v \in {<<258, 772>>} :
        Wrote("writeUint32", bytesWriteUint32(z, v),
              <<v[1] \div 256, v[1] % 256, v[2] \div 256, v[2] % 256>>)

WriteUint64 ==
    \E v \in {<<65535, 258, 0, 772>>} :
        Wrote("writeUint64", bytesWriteUint64(z, v),
              <<v[1] \div 256, v[1] % 256, v[2] \div 256, v[2] % 256,
                v[3] \div 256, v[3] % 256, v[4] \div 256, v[4] % 256>>)

Writeb ==
    \E s \in {LongBytes} : Wrote("writeb", bytesWriteb(z, s), s)

Writestr ==
    \E s \in {<<>>, <<97, 98>>} : Wrote("writestr", bytesWriteb(z, s), s)

Writen1 == \E bs \in {<<1>>} : Wrote("writen1", bytesWriten(z, bs), bs)

Writen2 == \E bs \in {<<2, 3>>} : Wrote("writen2", bytesWriten(z, bs), bs)

Writen3 == \E bs \in {<<4, 5, 6>>} : Wrote("writen3", bytesWriten(z, bs), bs)

Writen4 == \E bs \in {<<7, 8, 9, 10>>} : Wrote("writen4", bytesWriten(z, bs), bs)

\* The end of an Encode call that did not abort: e.w.flush().
Flush ==
    /\ nops < MaxOps
    /\ out' = bytesFlush(z)
    /\ wr' = [op |-> "flush", n |-> 0, cap0 |-> Cap(z), c0 |-> z.c,
              out0 |-> OutHeader(bytesFlush(z))]
    /\ nops' = nops + 1
    /\ UNCHANGED <<z, written>>
    /\ UNCHANGED <<regVars, timeVars, encVars>>

\* The end of an Encode call that aborted: the panic skips e.w.flush().
AbortCall ==
    /\ nops < MaxOps
    /\ wr' = [op |-> "abort", n |-> 0, cap0 |-> Cap(z), c0 |-> z.c,
              out0 |-> wr.out0]
    /\ nops' = nops + 1
    /\ UNCHANGED <<z, out, written>>
    /\ UNCHANGED <<regVars, timeVars, encVars>>


\* ------------------------------------------------------------ Go values

\* A value as reflect sees it.  kind is its reflect.Kind and type its type
\* identity; b, n, (n, e) and s hold a bool, an integer, a float n * 2^e and a
\* string or []byte; elems holds a pointer's or interface's target, a slice's
\* or array's elements, a struct's fields, or a map's keys and values in the
\* order MapKeys yields them (k1, v1, k2, v2, ...); key is a map's key kind
\* or an array's element type;
\* sis is what getStructFieldInfos returns for a struct's type.
ZeroValue ==
    [kind |-> "invalid", type |-> "", isNil |-> FALSE, b |-> FALSE, n |-> 0,
     e |-> 0, s |-> <<>>, key |-> "", elems |-> <<>>, sis |-> <<>>]

IntKinds == {"int", "int8", "int16", "int32", "int64"}

UintKinds == {"uint", "uint8", "uint16", "uint32", "uint64"}

\* The types the type switch of Encoder.encode names, and pointers to them.
ScalarTypes == {"string", "bool", "float32", "float64"} \cup IntKinds \cup UintKinds

PtrScalarTypes ==
    {"*string", "*bool", "*float32", "*float64", "*int", "*int8", "*int16",
     "*int32", "*int64", "*uint", "*uint8", "*uint16", "*uint32", "*uint64"}

\* reflect.TypeOf([]byte(nil))
byteSliceTyp == "[]uint8"

\* The type of rv.Slice(0, rv.Len()) for an array of type [N]T: []T.
ArraySliceType(rv) == "[]" \o rv.key

\* ------------------------------------------------------- primitive encoder

\* One call made by the traversal: a method of the encoder interface with its
\* arguments (c a charEncoding or a type, n and e numbers, s bytes), a call of
\* a registered extension function ("xfFn", c its type), or the sink write
\* e.w.writeb(bs) of an extension payload ("w.writeb").
Ev(op, c, n, e, s) == [op |-> op, c |-> c, n |-> n, e |-> e, s |-> s]

encodeNil == Ev("encodeNil", "", 0, 0, <<>>)

encodeInt(i) == Ev("encodeInt", "", i, 0, <<>>)

encodeUint(i) == Ev("encodeUint", "", i, 0, <<>>)

encodeBool(b) == Ev("encodeBool", "", IF b THEN 1 ELSE 0, 0, <<>>)

encodeFloat32(f) == Ev("encodeFloat32", "", f.n, f.e, <<>>)

encodeFloat64(f) == Ev("encodeFloat64", "", f.n, f.e, <<>>)

encodeExtPreamble(xtag, length) == Ev("encodeExtPreamble", "", xtag, length, <<>>)

encodeArrayPreamble(length) == Ev("encodeArrayPreamble", "", length, 0, <<>>)

encodeMapPreamble(length) == Ev("encodeMapPreamble", "", length, 0, <<>>)

encodeString(c, v) == Ev("encodeString", c, 0, 0, v)

encodeSymbol(v) == Ev("encodeSymbol", "", 0, 0, v)

encodeStringBytes(c, v) == Ev("encodeStringBytes", c, 0, 0, v)

\* The format's fast-path hook took the value.
encodeBuiltinType(rt) == Ev("encodeBuiltinType", rt, 0, 0, <<>>)

\* ------------------------------------------------------------- conversions

\* int64(v) and rv.Int(): sign extension keeps the value of a narrower integer.
ToInt64(v) == v.n

\* uint64(v) and rv.Uint(): zero extension keeps the value.
ToUint64(v) == v.n

RECURSIVE BitLen(_)
\* The number of bits of a natural number.
BitLen(m) == IF m = 0 THEN 0 ELSE 1 + BitLen(m \div 2)

RECURSIVE Pow2(_)
Pow2(k) == IF k = 0 THEN 1 ELSE 2 * Pow2(k - 1)

\* rv.Float(): a float32 widened to float64, exactly.
ToFloat64(v) == [n |-> v.n, e |-> v.e]

\* float32(f): the mantissa rounded to 24 bits, ties to even.
ToFloat32(f) ==
    LET a    == IF f.n < 0 THEN -f.n ELSE f.n
        drop == BitLen(a) - 24
    IN  IF drop <= 0 THEN f
        ELSE LET q    == a \div Pow2(drop)
                 r    == a % Pow2(drop)
                 half == Pow2(drop - 1)
                 up   == r > half \/ (r = half /\ q % 2 = 1)
                 m    == IF up THEN q + 1 ELSE q
             IN  [n |-> IF f.n < 0 THEN -m ELSE m, e |-> f.e + drop]

\* ------------------------------------------------------ traversal results

\* What a piece of the traversal did: the calls it made, and whether it
\* returned (ok) or panicked.
Done(evs) == [ev |-> evs, ok |-> TRUE]

Panic(evs) == [ev |-> evs, ok |-> FALSE]

\* r1 and then, unless r1 panicked, r2.
Then(r1, r2) == IF r1.ok THEN [ev |-> r1.ev \o r2.ev, ok |-> r2.ok] ELSE r1

\* The bytes a registered function returns ("fnBytes"); "fnNil" returns nil
\* and "fnErr" an error.
ExtPayload == <<7, 7>>

\* helper.go (not in src/): isEmptyValue, as the documentation of Encode has it.
isEmptyValue(v) ==
    CASE v.kind \in {"array", "slice", "string"} ->
            (IF v.kind = "string" THEN Len(v.s) ELSE Len(v.elems)) = 0
      [] v.kind = "map" -> Len(v.elems) = 0
      [] v.kind = "bool" -> ~v.b
      [] v.kind \in IntKinds \cup UintKinds \cup {"float32", "float64"} -> v.n = 0
      [] v.kind \in {"interface", "ptr"} -> v.isNil
      [] OTHER -> FALSE

RECURSIVE FieldByIndex(_, _, _)
\* rv.FieldByIndex(is): one Field step per index, from the k-th on.
FieldByIndex(rv, is, k) ==
    IF k > Len(is) THEN rv ELSE FieldByIndex(rv.elems[is[k] + 1], is, k + 1)

\* The value of the field a descriptor names: rv.Field(si.i) when si.i > -1,
\* rv.FieldByIndex(si.is) otherwise.
FieldOf(rv, si) ==
    IF si.i > -1 THEN rv.elems[si.i + 1] ELSE FieldByIndex(rv, si.is, 1)

RECURSIVE structLoop(_, _, _)
\* The loop of encStruct over sis from the k-th descriptor on; acc holds
\* rvals, encnames and newlen.
structLoop(rv, k, acc) ==
    IF k > Len(rv.sis) THEN acc
    ELSE LET si == rv.sis[k]
             a1 == [acc EXCEPT !.rvals[acc.newlen + 1] = FieldOf(rv, si)]
         IN  IF si.omitEmpty /\ isEmptyValue(a1.rvals[a1.newlen + 1])
             THEN structLoop(rv, k + 1, a1)
             ELSE structLoop(rv, k + 1,
                             [a1 EXCEPT !.encnames[a1.newlen + 1] = si.encName,
                                        !.newlen = a1.newlen + 1])

\* rvals := make([]reflect.Value, newlen); encnames := make([]string, newlen)
structStart(rv) ==
    [rvals |-> [i \in 1..Len(rv.sis) |-> ZeroValue],
     encnames |-> [i \in 1..Len(rv.sis) |-> <<>>],
     newlen |-> 0]

RECURSIVE encodeValue(_, _, _)
RECURSIVE encSliceFrom(_, _, _)
RECURSIVE encMapFrom(_, _, _)
RECURSIVE encPairsFrom(_, _, _, _)

\* The second loop of encStruct, from the j-th kept field on.
encPairsFrom(acc, j, addr, hh) ==
    IF j > acc.newlen THEN Done(<<>>)
    ELSE Then(Then(Done(<<encodeSymbol(acc.encnames[j])>>),
                   encodeValue(acc.rvals[j], addr, hh)),
              encPairsFrom(acc, j + 1, addr, hh))

\* A plausible slip: the omit-empty test is dropped and every field is kept.
encStructKeepAll(rv, addr, hh) ==
    LET acc == [rvals |-> [i \in 1..Len(rv.sis) |-> FieldOf(rv, rv.sis[i])],
                encnames |-> [i \in 1..Len(rv.sis) |-> rv.sis[i].encName],
                newlen |-> Len(rv.sis)]
    IN  Then(Done(<<encodeMapPreamble(acc.newlen)>>), encPairsFrom(acc, 1, addr, hh))

\* encStruct; addr is whether rv is addressable (its fields then are too).
encStruct(rv, addr, hh) ==
    LET acc == structLoop(rv, 1, structStart(rv))
    IN  Then(Done(<<encodeMapPreamble(acc.newlen)>>), encPairsFrom(acc, 1, addr, hh))

\* for j := 0; j < l; j++ { e.encodeValue(rv.Index(j)) }
encSliceFrom(rv, j, hh) ==
    IF j > Len(rv.elems) THEN Done(<<>>)
    ELSE Then(encodeValue(rv.elems[j], TRUE, hh), encSliceFrom(rv, j + 1, hh))

\* for j := range mks: the key as a symbol or a value, then the value.
encMapFrom(rv, j, hh) ==
    IF 2 * j > Len(rv.elems) THEN Done(<<>>)
    ELSE LET k == rv.elems[2 * j - 1]
             v == rv.elems[2 * j]
             kr == IF rv.key = "string" THEN Done(<<encodeSymbol(k.s)>>)
                   ELSE encodeValue(k, FALSE, hh)
         IN  Then(Then(kr, encodeValue(v, FALSE, hh)), encMapFrom(rv, j + 1, hh))

\* A plausible slip: a zero-length slice returns before its preamble.
encSliceKindSkipEmpty(rv, rt, hh) ==
    IF rv.isNil THEN Done(<<encodeNil>>)
    ELSE IF rt = byteSliceTyp
    THEN Done(<<encodeStringBytes("RAW", [i \in 1..Len(rv.elems) |-> rv.elems[i].n])>>)
    ELSE IF Len(rv.elems) = 0 THEN Done(<<>>)
    ELSE Then(Done(<<encodeArrayPreamble(Len(rv.elems))>>), encSliceFrom(rv, 1, hh))

\* case reflect.Slice, for a slice rv of type rt.
encSliceKind(rv, rt, hh) ==
    IF rv.isNil THEN Done(<<encodeNil>>)
    ELSE IF rt = byteSliceTyp
    THEN Done(<<encodeStringBytes("RAW", [i \in 1..Len(rv.elems) |-> rv.elems[i].n])>>)
    ELSE Then(Done(<<encodeArrayPreamble(Len(rv.elems))>>), encSliceFrom(rv, 1, hh))

\* The switch on rv.Kind() of encodeValue.
kindDispatch(rv, addr, hh) ==
    CASE rv.kind = "bool" -> Done(<<encodeBool(rv.b)>>)
      [] rv.kind = "string" -> Done(<<encodeString("UTF8", rv.s)>>)
      [] rv.kind = "float64" -> Done(<<encodeFloat64(ToFloat64(rv))>>)
      [] rv.kind = "float32" -> Done(<<encodeFloat32(ToFloat32(ToFloat64(rv)))>>)
      [] rv.kind = "slice" -> encSliceKind(rv, rv.type, hh)
      [] rv.kind = "array" ->
            \* rv.Slice panics on an array that is not addressable.
            IF ~addr THEN Panic(<<>>)
            ELSE encodeValue([rv EXCEPT !.kind = "slice", !.isNil = FALSE,
                                        !.type = ArraySliceType(rv), !.key = ""],
                             FALSE, hh)
      [] rv.kind = "map" ->
            IF rv.isNil THEN Done(<<encodeNil>>)
            ELSE Then(Done(<<encodeMapPreamble(Len(rv.elems) \div 2)>>),
                      encMapFrom(rv, 1, hh))
      [] rv.kind = "struct" -> encStruct(rv, addr, hh)
      [] rv.kind = "ptr" ->
            IF rv.isNil THEN Done(<<encodeNil>>)
            ELSE encodeValue(rv.elems[1], TRUE, hh)
      [] rv.kind = "interface" ->
            IF rv.isNil THEN Done(<<encodeNil>>)
            ELSE encodeValue(rv.elems[1], FALSE, hh)
      [] rv.kind \in IntKinds -> Done(<<encodeInt(ToInt64(rv))>>)
      [] rv.kind \in UintKinds -> Done(<<encodeUint(ToUint64(rv))>>)
      [] rv.kind = "invalid" -> Done(<<encodeNil>>)
      [] OTHER -> Panic(<<>>)

\* The extension branch of encodeValue, xf being what getEncodeExt returned.
encodeExt(rv, xf, hh) ==
    LET call == Ev("xfFn", rv.type, 0, 0, <<>>)
    IN  CASE xf.fn = "fnErr" -> Panic(<<call>>)
          [] xf.fn = "fnNil" -> Done(<<call, encodeNil>>)
          [] OTHER ->
                IF hh.writeExt
                THEN Done(<<call, encodeExtPreamble(xf.tag, Len(ExtPayload)),
                            Ev("w.writeb", "", 0, 0, ExtPayload)>>)
                ELSE Done(<<call, encodeStringBytes("RAW", ExtPayload)>>)

\* encodeValue: the format's hook, then a registered extension, then the kind.
\* rv.Type() panics on the zero reflect.Value.
encodeValue(rv, addr, hh) ==
    IF rv.kind = "invalid" THEN Panic(<<>>)
    ELSE IF rv.type \in hh.builtin THEN Done(<<encodeBuiltinType(rv.type)>>)
    ELSE LET xf == getEncodeExt(hh.o, rv.type)
         IN  IF xf.fn # NilFn THEN encodeExt(rv, xf, hh)
             ELSE kindDispatch(rv, addr, hh)

\* The scalar cases of the type switch of Encoder.encode, for a value v of one
\* of the types it names.
fastScalar(v) ==
    CASE v.type = "string" -> encodeString("UTF8", v.s)
      [] v.type = "bool" -> encodeBool(v.b)
      [] v.type \in IntKinds -> encodeInt(ToInt64(v))
      [] v.type \in UintKinds -> encodeUint(ToUint64(v))
      [] v.type = "float32" -> encodeFloat32([n |-> v.n, e |-> v.e])
      [] OTHER -> encodeFloat64([n |-> v.n, e |-> v.e])

\* Encoder.encode: iv is the interface value given to Encode; the nil
\* interface is held as ZeroValue, a reflect.Value as kind "reflect.Value".
\* *v on a nil pointer is a run-time panic.
encode(iv, hh) ==
    CASE iv = ZeroValue -> Done(<<encodeNil>>)
      [] iv.kind = "reflect.Value" -> encodeValue(iv.elems[1], FALSE, hh)
      [] iv.type \in ScalarTypes -> Done(<<fastScalar(iv)>>)
      [] iv.type \in PtrScalarTypes ->
            IF iv.isNil THEN Panic(<<>>) ELSE Done(<<fastScalar(iv.elems[1])>>)
      [] OTHER -> encodeValue(iv, FALSE, hh)

\* ------------------------------------------------------ stream-backed sink

\* What the wrapped stream answers to the k-th call made on it: sink.at is
\* the call it fails (0: none), with an error ("err") or by taking one byte
\* fewer than given ("short"; WriteByte reports no count and cannot).
Answer(sink, k, len) ==
    IF k = sink.at /\ sink.kind = "err" THEN [n |-> 0, err |-> TRUE]
    ELSE IF k = sink.at /\ sink.kind = "short" /\ len > 0
    THEN [n |-> len - 1, err |-> FALSE]
    ELSE [n |-> len, err |-> FALSE]

\* A plausible slip: the count Write returns is not compared with len(bs).
ioWritebNoCount(len, ans) == ans.err

\* ioEncWriter.writeb: whether it panics, given what z.w.Write(bs) returned.
ioWriteb(len, ans) == ans.err \/ ans.n # len

\* ioEncWriter.writestr: whether it panics, given what WriteString returned.
ioWritestr(len, ans) == ans.err \/ ans.n # len

\* ioEncWriter.writen1: whether it panics, given what WriteByte returned.
ioWriten1(ans) == ans.err

\* ioEncWriter.flush: whether it panics; only a sink with Flush() is flushed.
ioFlush(sink) == sink.flusher /\ sink.flushErr

\* The one sink call a format makes for a call of the traversal (the formats
\* are not in src/): a byte for nil, a bool or a preamble, the bytes of a
\* number, the string or the bytes otherwise; "xfFn" writes nothing.
SinkCall(ev) ==
    CASE ev.op = "xfFn" -> [op |-> "none", len |-> 0]
      [] ev.op \in {"encodeNil", "encodeBool", "encodeExtPreamble",
                    "encodeArrayPreamble", "encodeMapPreamble"} ->
            [op |-> "writen1", len |-> 1]
      [] ev.op \in {"encodeString", "encodeSymbol"} ->
            [op |-> "writestr", len |-> Len(ev.s)]
      [] ev.op \in {"encodeStringBytes", "w.writeb"} ->
            [op |-> "writeb", len |-> Len(ev.s)]
      [] OTHER -> [op |-> "writeb", len |-> 8]

\* Whether the sink call sc, the k-th made on the stream, panics.
SinkPanics(sink, sc, k) ==
    CASE sc.op = "writeb" -> ioWriteb(sc.len, Answer(sink, k, sc.len))
      [] sc.op = "writestr" -> ioWritestr(sc.len, Answer(sink, k, sc.len))
      [] sc.op = "writen1" -> ioWriten1(Answer(sink, k, sc.len))
      [] OTHER -> FALSE

RECURSIVE runSink(_, _, _, _)
\* The calls evs from the i-th on, k sink calls having been made before: the
\* index of the call whose sink call panicked and the sink calls that
\* returned; at 0 when none panicked.
runSink(evs, i, k, sink) ==
    IF i > Len(evs) THEN [at |-> 0, writes |-> k]
    ELSE LET sc == SinkCall(evs[i])
         IN  IF sc.op = "none" THEN runSink(evs, i + 1, k, sink)
             ELSE IF SinkPanics(sink, sc, k + 1) THEN [at |-> i, writes |-> k]
             ELSE runSink(evs, i + 1, k + 1, sink)

\* helper.go (not in src/): the deferred panicToErr recovers every panic and
\* stores it in the error Encode returns.
panicToErr(panicked) == [err |-> panicked, escaped |-> FALSE]

\* A plausible slip: flush is deferred too, and runs after a panic as well.
EncodeFlushAlways(iv, hh, sink) ==
    LET r == encode(iv, hh)
        f == runSink(r.ev, 1, 0, sink)
        rec == panicToErr(f.at > 0 \/ ~r.ok \/ ioFlush(sink))
    IN  [val |-> iv, sink |-> sink,
         calls |-> IF f.at > 0 THEN SubSeq(r.ev, 1, f.at) ELSE r.ev,
         writes |-> f.writes, flushes |-> 1,
         err |-> rec.err, escaped |-> rec.escaped]

\* Encoder.Encode on a stream-backed Encoder: encode, flush, and the deferred
\* panicToErr.  A panic ends the call where it is raised.
Encode(iv, hh, sink) ==
    LET r == encode(iv, hh)
        f == runSink(r.ev, 1, 0, sink)
        panicked == f.at > 0 \/ ~r.ok
        flushed == ~panicked
        rec == panicToErr(panicked \/ (flushed /\ ioFlush(sink)))
    IN  [val |-> iv, sink |-> sink,
         calls |-> IF f.at > 0 THEN SubSeq(r.ev, 1, f.at) ELSE r.ev,
         writes |-> f.writes, flushes |-> IF flushed THEN 1 ELSE 0,
         err |-> rec.err, escaped |-> rec.escaped]

\* ------------------------------------------------------------ sample values

Scalar(kind, type, n) == [ZeroValue EXCEPT !.kind = kind, !.type = type, !.n = n]

IntV(n) == Scalar("int", "int", n)

Float(kind, n, e) == [ZeroValue EXCEPT !.kind = kind, !.type = kind, !.n = n, !.e = e]

Str(s) == [ZeroValue EXCEPT !.kind = "string", !.type = "string", !.s = s]

Bool(b) == [ZeroValue EXCEPT !.kind = "bool", !.type = "bool", !.b = b]

Ptr(type, v) == [ZeroValue EXCEPT !.kind = "ptr", !.type = type, !.elems = <<v>>]

NilOf(kind, type) == [ZeroValue EXCEPT !.kind = kind, !.type = type, !.isNil = TRUE]

Slice(type, elems) == [ZeroValue EXCEPT !.kind = "slice", !.type = type, !.elems = elems]

\* An array of type [len(elems)]elem.
Array(elem, elems) ==
    [ZeroValue EXCEPT !.kind = "array",
                      !.type = "[" \o ToString(Len(elems)) \o "]" \o elem,
                      !.key = elem, !.elems = elems]

Map(type, key, elems) ==
    [ZeroValue EXCEPT !.kind = "map", !.type = type, !.key = key, !.elems = elems]

Iface(v) == [ZeroValue EXCEPT !.kind = "interface", !.type = "interface {}", !.elems = <<v>>]

Struct(type, sis, fields) ==
    [ZeroValue EXCEPT !.kind = "struct", !.type = type, !.sis = sis, !.elems = fields]

Chan == [ZeroValue EXCEPT !.kind = "chan", !.type = "chan int"]

\* reflect.ValueOf(v) handed to Encode as a reflect.Value.
Reflected(v) == [ZeroValue EXCEPT !.kind = "reflect.Value", !.type = "reflect.Value", !.elems = <<v>>]

Si(name, omitEmpty, i, is) == [encName |-> name, omitEmpty |-> omitEmpty, i |-> i, is |-> is]

Byte8(n) == Scalar("uint8", "uint8", n)

\* struct S { A int `,omitempty`; B string; C []int `,omitempty`;
\*            D *int `,omitempty`; E bool `,omitempty` }
SisS ==
    <<Si(<<65>>, TRUE, 0, <<>>), Si(<<66>>, FALSE, 1, <<>>), Si(<<67>>, TRUE, 2, <<>>),
      Si(<<68>>, TRUE, 3, <<>>), Si(<<69>>, TRUE, 4, <<>>)>>

S(a, b, c, d, e) == Struct("S", SisS, <<a, b, c, d, e>>)

\* struct Outer { Inner; Y int }, Inner { X int `,omitempty` } flattened: X is
\* reached by the index path 0.0.
SisOuter == <<Si(<<88>>, TRUE, -1, <<0, 0>>), Si(<<89>>, FALSE, 1, <<>>)>>

Outer(x, y) ==
    Struct("Outer", SisOuter, <<Struct("Inner", <<>>, <<IntV(x)>>), IntV(y)>>)

\* struct Bad { A int; C chan int; Z int }
Bad ==
    Struct("Bad", <<Si(<<65>>, FALSE, 0, <<>>), Si(<<67>>, FALSE, 1, <<>>),
                    Si(<<90>>, FALSE, 2, <<>>)>>,
           <<IntV(1), Chan, IntV(2)>>)

Scalars ==
    { Str(<<>>), Str(<<97, 98>>), Bool(TRUE), Bool(FALSE), IntV(5), IntV(0),
      Scalar("int8", "int8", -3), Scalar("int16", "int16", 300),
      Scalar("int32", "int32", -70000), Scalar("int64", "int64", 2147483647),
      Scalar("uint", "uint", 7), Byte8(255), Scalar("uint16", "uint16", 65535),
      Scalar("uint32", "uint32", 70000), Scalar("uint64", "uint64", 0),
      Float("float32", 3, -1), Float("float32", 16777215, 0),
      Float("float64", -3, -2), Float("float64", 0, 0) }

PtrScalars ==
    { Ptr("*int", IntV(5)), Ptr("*string", Str(<<97>>)), Ptr("*bool", Bool(TRUE)),
      Ptr("*uint8", Byte8(9)), Ptr("*float32", Float("float32", 3, -1)),
      Ptr("*float64", Float("float64", -3, -2)),
      Ptr("*int64", Scalar("int64", "int64", -1)) }

Nils ==
    { ZeroValue, NilOf("slice", "[]int"), NilOf("slice", "[]uint8"),
      NilOf("map", "map[string]int"), NilOf("ptr", "*S"), NilOf("ptr", "*int"),
      NilOf("ptr", "*string") }

Containers ==
    { Slice("[]int", <<>>), Slice("[]int", <<IntV(1), IntV(2)>>),
      Slice("[]uint8", <<>>), Slice("[]uint8", <<Byte8(1), Byte8(2)>>),
      Slice("MyBytes", <<Byte8(1)>>), Slice("[]string", <<>>),
      Slice("[]interface {}", <<NilOf("interface", "interface {}"), Iface(IntV(5))>>),
      Slice("[]*int", <<NilOf("ptr", "*int"), Ptr("*int", IntV(3))>>),
      Slice("[]chan int", <<Chan>>),
      Array("int", <<IntV(1), IntV(2)>>),
      Ptr("*[2]int", Array("int", <<IntV(1), IntV(2)>>)),
      Ptr("*[0]int", Array("int", <<>>)),
      Ptr("*[2]uint8", Array("uint8", <<Byte8(1), Byte8(2)>>)),
      Ptr("*[1]uint8", Array("uint8", <<Byte8(5)>>)),
      Ptr("*[3]string", Array("string", <<Str(<<97>>), Str(<<98>>), Str(<<99>>)>>)),
      Map("map[string]int", "string", <<>>),
      Map("map[string]int", "string", <<Str(<<97>>), IntV(1), Str(<<98>>), IntV(2)>>),
      Map("map[string]int", "string", <<Str(<<98>>), IntV(2), Str(<<97>>), IntV(1)>>),
      Map("map[int][]int", "int", <<IntV(1), NilOf("slice", "[]int")>>) }

Structs ==
    { S(IntV(0), Str(<<>>), Slice("[]int", <<>>), NilOf("ptr", "*int"), Bool(FALSE)),
      S(IntV(5), Str(<<97, 98>>), Slice("[]int", <<IntV(1)>>), Ptr("*int", IntV(5)), Bool(TRUE)),
      S(IntV(0), Str(<<120>>), NilOf("slice", "[]int"), Ptr("*int", IntV(0)), Bool(TRUE)),
      S(IntV(7), Str(<<>>), Slice("[]int", <<>>), NilOf("ptr", "*int"), Bool(FALSE)),
      Outer(0, 4), Outer(3, 0), Bad, Struct("Time", <<>>, <<>>),
      Ptr("*S", S(IntV(0), Str(<<>>), NilOf("slice", "[]int"), Ptr("*int", IntV(1)), Bool(FALSE))) }

Others ==
    { Scalar("int", "MyInt", 5), Chan, Reflected(IntV(5)), Reflected(ZeroValue),
      Reflected(Float("float32", 3, -1)) }

\* The values given to Encode.
Values == Scalars \cup PtrScalars \cup Nils \cup Containers \cup Structs \cup Others

\* The streams an Encoder writes to: sound ones with and without Flush(), one
\* whose Flush() fails, and ones that fail a write.
Sinks ==
    { [at |-> 0, kind |-> "err", flusher |-> f, flushErr |-> FALSE] : f \in BOOLEAN }
        \cup { [at |-> 0, kind |-> "err", flusher |-> TRUE, flushErr |-> TRUE] }
        \cup { [at |-> k, kind |-> kd, flusher |-> TRUE, flushErr |-> FALSE] :
                  k \in 1..MaxFaultAt, kd \in {"err", "short"} }

\* ---------------------------------------------------------- encode scenario

NoEnc ==
    [val |-> ZeroValue, sink |-> [at |-> -1, kind |-> "err", flusher |-> FALSE, flushErr |-> FALSE],
     calls |-> <<>>, writes |-> 0, flushes |-> 0, err |-> FALSE, escaped |-> FALSE]

\* The encode variables of a scenario that makes no Encode call.
EncIdle ==
    /\ h = [writeExt |-> TRUE, builtin |-> {}]
    /\ enc = NoEnc

\* A Handle is made with its flag and its format; its registry starts empty.
EncInit ==
    /\ h \in [writeExt : BOOLEAN, builtin : {{}, {"Time"}}]
    /\ enc = NoEnc

\* The Handle as the Encoder reads it.
Handle == [o |-> o, writeExt |-> h.writeExt, builtin |-> h.builtin]

ExtFns == {"fnBytes", "fnNil", "fnErr"}

\* The types the encode scenario registers extensions for: a built-in scalar,
\* a slice and a struct.
EncExtTypes == {"int", "[]int", "S"}

\* Registering an extension while the Handle is being configured.
AddExt ==
    \E rt \in EncExtTypes, fn \in ExtFns :
        \E ks \in RegOrders[(DOMAIN o.extFuncs) \cup {rt}] :
            /\ enc = NoEnc
            /\ Cardinality((DOMAIN o.extFuncs) \cup {rt}) <= MaxExts
            /\ o' = addEncodeExt(o, rt, 1, fn, ks)
            /\ UNCHANGED <<look, last, h, enc>>
            /\ UNCHANGED <<bufVars, timeVars>>

\* One Encode call; an Encoder serves one call at a time.
EncodeCall ==
    \E iv \in Values, sink \in Sinks :
        /\ enc = NoEnc
        /\ enc' = Encode(iv, Handle, sink)
        /\ UNCHANGED <<regVars, h>>
        /\ UNCHANGED <<bufVars, timeVars>>

\* The caller has taken the result; the Encoder is free for the next call.
EncodeReturned ==
    /\ enc # NoEnc
    /\ enc' = NoEnc
    /\ UNCHANGED <<regVars, h>>
    /\ UNCHANGED <<bufVars, timeVars>>


\* -------------------------------------------------------------- encodeTime

\* An int64 is held as [hi, lo], the value hi * 2^16 + lo with lo in 0..65535.
I64(hi, lo) == [hi |-> hi, lo |-> lo]

\* math.MinInt32 and math.MaxInt32 as int64 values.
MinInt32 == I64(-32768, 0)

MaxInt32 == I64(32767, 65535)

\* a < b on int64 values.
Lt64(a, b) == a.hi < b.hi \/ (a.hi = b.hi /\ a.lo < b.lo)

\* Go's integer division, which truncates toward zero.
Quot(a, b) == IF a >= 0 THEN a \div b ELSE -((-a) \div b)

\* bigen.PutUint16
PutUint16(v) == <<Byte(v \div 256), Byte(v)>>

\* bigen.PutUint32(uint32(int32(tsecs))): the low 32 bits of the int64.
PutSecs32(t) == PutUint16(t.hi % 65536) \o PutUint16(t.lo)

\* bigen.PutUint64(uint64(tsecs)): the 64 two's-complement bits of the int64.
PutSecs64(t) ==
    PutUint16(((t.hi \div 65536) \div 65536) % 65536)
        \o PutUint16((t.hi \div 65536) % 65536)
        \o PutUint16(t.hi % 65536) \o PutUint16(t.lo)

\* bigen.PutUint32(uint32(tnsecs)), 0 <= tnsecs < 10^9.
PutNsecs(n) == PutUint16(n \div 65536) \o PutUint16(n % 65536)

\* The 16-bit zone field: minutes from UTC, the sign in the top bit.
ZoneField(offsetSecs) ==
    LET m   == Quot(offsetSecs, 60)
        mag == (IF m < 0 THEN -m ELSE m) % 65536
    IN  IF m < 0 THEN (IF mag >= 32768 THEN mag ELSE mag + 32768) ELSE mag

\* tsecs > math.MinInt32 && tsecs < math.MaxInt32
secsFit32(tsecs) == Lt64(MinInt32, tsecs) /\ Lt64(tsecs, MaxInt32)

\* encodeTime: t is [secs, nsecs, utc, offset]; utc is Location() == time.UTC.
encodeTime(t) ==
    LET short   == secsFit32(t.secs)
        padzero == ~short /\ t.nsecs = 0
        secs    == IF short THEN PutSecs32(t.secs) ELSE PutSecs64(t.secs)
        nsecs   == IF t.nsecs # 0 THEN PutNsecs(t.nsecs) ELSE <<>>
        zone    == IF ~t.utc THEN PutUint16(ZoneField(t.offset)) ELSE <<>>
        pad     == IF padzero THEN <<0>> ELSE <<>>
    IN  secs \o nsecs \o zone \o pad

\* Unix seconds around both ends of the int32 range, and between them.
TimeSecs ==
    {I64(hi, lo) : hi \in {-32769, -32768, -1, 0, 32767, 32768}, lo \in {0, 1, 65535}}

TimeNsecs == {0, 1, 999999999}

\* UTC, and locations other than time.UTC at several offsets (in seconds).
TimeZones ==
    {[utc |-> TRUE, offset |-> 0]}
        \cup {[utc |-> FALSE, offset |-> f] : f \in {0, 3600, -5430, 19800}}

Times ==
    {[secs |-> s, nsecs |-> n, utc |-> zn.utc, offset |-> zn.offset] :
        s \in TimeSecs, n \in TimeNsecs, zn \in TimeZones}

NoTime == [secs |-> I64(0, 0), nsecs |-> 0, utc |-> TRUE, offset |-> -1]

TimeIdle ==
    /\ tin = NoTime
    /\ tout = <<>>

EncodeTime ==
    \E t \in Times :
        /\ tin' = t
        /\ tout' = encodeTime(t)
        /\ UNCHANGED <<regVars, bufVars, encVars>>

InitTime == RegInit /\ BufIdle /\ TimeIdle /\ EncIdle

NextTime == EncodeTime

SpecTime == InitTime /\ [][NextTime]_vars

InitBuf == RegInit /\ BufInit /\ TimeIdle /\ EncIdle

NextBuf ==
    \/ WriteUint16 \/ WriteUint32 \/ WriteUint64 \/ Writeb \/ Writestr
    \/ Writen1 \/ Writen2 \/ Writen3 \/ Writen4 \/ Flush \/ AbortCall

SpecBuf == InitBuf /\ [][NextBuf]_vars

InitEnc == RegInit /\ BufIdle /\ TimeIdle /\ EncInit

NextEnc == AddExt \/ EncodeCall \/ EncodeReturned

SpecEnc == InitEnc /\ [][NextEnc]_vars

\* ------------------------------------------------------- registry scenario

\* The key orders `range` may yield after this registration.
RangeOrders(oo, rt, fn) ==
    RegOrders[IF fn # NilFn THEN (DOMAIN oo.extFuncs) \cup {rt}
              ELSE (DOMAIN oo.extFuncs) \ {rt}]

InitReg == RegInit /\ BufIdle /\ TimeIdle /\ EncIdle

\* register(type, tag, fn) with a non-nil function, before or after lookups.
\* look holds the result of the call just made when that call was a lookup.
AddEncodeExt ==
    \E c \in RegCalls : \E ks \in RangeOrders(o, c[1], "fnBytes") :
        /\ o' = addEncodeExt(o, c[1], c[2], "fnBytes", ks)
        /\ last' = [last EXCEPT ![c[1]] = [fn |-> "fnBytes", tag |-> c[2]]]
        /\ look' = NoLook
        /\ UNCHANGED <<bufVars, timeVars, encVars>>

\* register(type, tag, nil): removal.
RemoveEncodeExt ==
    \E rt \in RegTypes : \E ks \in RangeOrders(o, rt, NilFn) :
        /\ o' = addEncodeExt(o, rt, 0, NilFn, ks)
        /\ last' = [last EXCEPT ![rt] = ZeroExt]
        /\ look' = NoLook
        /\ UNCHANGED <<bufVars, timeVars, encVars>>

\* lookup(type)
GetEncodeExt ==
    \E rt \in RegTypes :
        /\ look' = [rt |-> rt, tag |-> getEncodeExt(o, rt).tag,
                    fn |-> getEncodeExt(o, rt).fn]
        /\ UNCHANGED <<o, last>>
        /\ UNCHANGED <<bufVars, timeVars, encVars>>

NextReg == AddEncodeExt \/ RemoveEncodeExt \/ GetEncodeExt

SpecReg == InitReg /\ [][NextReg]_vars

\* ------------------------------------------------------------------- claims

\* The types held by the linear list, in list order.
ExtsTypes == {o.exts[i].rt : i \in 1..Len(o.exts)}

\* An Encode call was made on a stream that fails nothing.
SoundCall == enc # NoEnc /\ enc.sink.at = 0 /\ ~enc.sink.flushErr

\* Neither the format's hook nor a registered extension takes values of v's
\* type: encodeValue reaches the switch on the kind.
Dispatched(v) == v.type \notin h.builtin /\ getEncodeExt(o, v.type).fn = NilFn

\* C1: for a nil slice, nil map, nil pointer (a nil *int or *string given to
\* Encode included) or nil interface, the encoder emits exactly one nil
\* marker, no preamble, and Encode does not fail because of it.
C1_NilMarker ==
    (/\ SoundCall
     /\ \/ enc.val = ZeroValue
        \/ enc.val.isNil /\ enc.val.kind \in {"slice", "map", "ptr"})
        => enc.calls = <<encodeNil>> /\ ~enc.err

RECURSIVE KeptFrom(_, _)
\* The descriptors of v kept by the rule of the documentation, from the k-th
\* on: dropped exactly when omit-empty is set and the field's value is empty.
KeptFrom(v, k) ==
    IF k > Len(v.sis) THEN <<>>
    ELSE IF v.sis[k].omitEmpty /\ isEmptyValue(FieldOf(v, v.sis[k]))
    THEN KeptFrom(v, k + 1)
    ELSE <<v.sis[k]>> \o KeptFrom(v, k + 1)

RECURSIVE PairsOf(_, _, _)
\* symbol(key), then the encoding of that key's own field, for each kept
\* descriptor in turn, up to a panic.
PairsOf(v, kept, j) ==
    IF j > Len(kept) THEN Done(<<>>)
    ELSE Then(Then(Done(<<encodeSymbol(kept[j].encName)>>),
                   encodeValue(FieldOf(v, kept[j]), FALSE, Handle)),
              PairsOf(v, kept, j + 1))

\* C2: encStruct emits one map preamble whose count is the number of kept
\* fields (a field is dropped exactly when its omit-empty flag is set and its
\* value is empty), then for each kept field, in the descriptors' order, its
\* symbol key and its own value's encoding; a panic in a value ends it there.
C2_StructOmitEmpty ==
    (SoundCall /\ enc.val.kind = "struct" /\ Dispatched(enc.val)) =>
        LET kept == KeptFrom(enc.val, 1)
            want == Then(Done(<<encodeMapPreamble(Len(kept))>>), PairsOf(enc.val, kept, 1))
        IN  /\ enc.calls = want.ev
            /\ enc.err = ~want.ok

\* C2 witness: a struct whose omit-empty fields are empty but for the last,
\* and whose plain field is empty and kept.
C2_Witness ==
    /\ SoundCall
    /\ enc.val = S(IntV(0), Str(<<120>>), NilOf("slice", "[]int"), Ptr("*int", IntV(0)), Bool(TRUE))
    /\ Dispatched(enc.val)
    /\ Len(enc.calls) = 7
    /\ enc.calls[1] = encodeMapPreamble(3)

\* C3: for every value of a scalar type, and every non-nil pointer to one,
\* the fast path of Encoder.encode and the kind dispatch of encodeValue make
\* the same primitive-encoder calls with the same arguments.
C3_FastEqualsGeneric ==
    (/\ SoundCall
     /\ \/ enc.val.type \in ScalarTypes
        \/ enc.val.type \in PtrScalarTypes /\ ~enc.val.isNil)
        => enc.calls = kindDispatch(enc.val, FALSE, Handle).ev

\* C4: at the top level and nested alike, a value whose type has a registered
\* extension function is encoded by it rather than by its kind, and a
\* registered extension for a built-in scalar type (or a pointer to one) is
\* never invoked.
C4_Precedence ==
    SoundCall =>
        /\ (/\ enc.val.kind \notin {"invalid", "reflect.Value"}
            /\ enc.val.type \notin ScalarTypes \cup PtrScalarTypes
            /\ enc.val.type \notin h.builtin
            /\ getEncodeExt(o, enc.val.type).fn # NilFn)
              => Len(enc.calls) > 0 /\ enc.calls[1] = Ev("xfFn", enc.val.type, 0, 0, <<>>)
        /\ \A i \in 1..Len(enc.calls) :
              enc.calls[i].op = "xfFn" => enc.calls[i].c \notin ScalarTypes \cup PtrScalarTypes

RECURSIVE ElemsFrom(_, _)
\* The encodings of v's elements from the j-th on, in index order.
ElemsFrom(v, j) ==
    IF j > Len(v.elems) THEN Done(<<>>)
    ELSE Then(encodeValue(v.elems[j], TRUE, Handle), ElemsFrom(v, j + 1))

\* C5: a non-nil slice of length 0 of any element type, byte slices included,
\* or a non-nil map with no entries, emits exactly one preamble with count 0
\* and nothing else; a non-nil non-byte slice of length n > 0 emits the array
\* preamble with count n and then its n elements' encodings in index order.
C5_ContainerPreamble ==
    (SoundCall /\ ~enc.err /\ ~enc.val.isNil) =>
        /\ (enc.val.kind = "slice" /\ Len(enc.val.elems) = 0)
              => enc.calls = <<encodeArrayPreamble(0)>>
        /\ (enc.val.kind = "map" /\ Len(enc.val.elems) = 0)
              => enc.calls = <<encodeMapPreamble(0)>>
        /\ (enc.val.kind = "slice" /\ enc.val.type # byteSliceTyp /\ Len(enc.val.elems) > 0)
              => enc.calls = <<encodeArrayPreamble(Len(enc.val.elems))>> \o ElemsFrom(enc.val, 1).ev

\* C5 as amended: the same of a slice whose type is not []byte and of a map,
\* when neither the format's hook nor a registered extension takes the type
\* and the call does not abort; a non-nil []byte of any length, the empty one
\* too, is one raw byte string and no preamble.
C5_ContainerPreambleAmended ==
    (SoundCall /\ ~enc.err /\ ~enc.val.isNil /\ Dispatched(enc.val)) =>
        /\ (enc.val.kind = "slice" /\ enc.val.type # byteSliceTyp /\ Len(enc.val.elems) = 0)
              => enc.calls = <<encodeArrayPreamble(0)>>
        /\ (enc.val.kind = "map" /\ Len(enc.val.elems) = 0)
              => enc.calls = <<encodeMapPreamble(0)>>
        /\ (enc.val.kind = "slice" /\ enc.val.type # byteSliceTyp /\ Len(enc.val.elems) > 0)
              => enc.calls = <<encodeArrayPreamble(Len(enc.val.elems))>> \o ElemsFrom(enc.val, 1).ev
        /\ (enc.val.kind = "slice" /\ enc.val.type = byteSliceTyp)
              => /\ Len(enc.calls) = 1
                 /\ enc.calls[1].op = "encodeStringBytes"
                 /\ Len(enc.calls[1].s) = Len(enc.val.elems)

\* C5 witness: a non-nil empty slice, encoded as the array preamble with count 0.
C5_Witness ==
    /\ SoundCall
    /\ enc.val = Slice("[]int", <<>>)
    /\ Dispatched(enc.val)
    /\ enc.calls = <<encodeArrayPreamble(0)>>

HasSinkCall(ev) == SinkCall(ev).op # "none"

\* The sink calls the calls evs make, in order.
SinkCallsOf(evs) ==
    LET w == SelectSeq(evs, HasSinkCall) IN [i \in 1..Len(w) |-> SinkCall(w[i])]

RECURSIVE EventOfSinkCall(_, _, _)
\* The index in evs of the call that makes the k-th sink call, from the i-th on.
EventOfSinkCall(evs, i, k) ==
    IF ~HasSinkCall(evs[i]) THEN EventOfSinkCall(evs, i + 1, k)
    ELSE IF k = 1 THEN i
    ELSE EventOfSinkCall(evs, i + 1, k - 1)

\* C6: every abort inside one Encode call (an unsupported kind, an extension
\* function's error, a sink write that returns an error or a short count, a
\* flush error) is returned as a non-nil error and never leaves Encode as a
\* panic; no call, write or flush follows the abort; without an abort Encode
\* returns nil after all the value's writes and exactly one flush.
C6_AbortIsError ==
    enc # NoEnc =>
        LET full == encode(enc.val, Handle)
            scs  == SinkCallsOf(full.ev)
            k    == enc.sink.at
            hit  == /\ k >= 1 /\ k <= Len(scs)
                    /\ \/ enc.sink.kind = "err"
                       \/ /\ enc.sink.kind = "short"
                          /\ scs[k].op \in {"writeb", "writestr"}
                          /\ scs[k].len > 0
        IN  /\ ~enc.escaped
            /\ hit => /\ enc.err
                      /\ enc.calls = SubSeq(full.ev, 1, EventOfSinkCall(full.ev, 1, k))
                      /\ enc.writes = k - 1
                      /\ enc.flushes = 0
            /\ (~hit /\ ~full.ok) => /\ enc.err
                                     /\ enc.calls = full.ev
                                     /\ enc.writes = Len(scs)
                                     /\ enc.flushes = 0
            /\ (~hit /\ full.ok) => /\ enc.err = (enc.sink.flusher /\ enc.sink.flushErr)
                                    /\ enc.calls = full.ev
                                    /\ enc.writes = Len(scs)
                                    /\ enc.flushes = 1

\* C6 witness: a short write in the middle of a value with more to encode:
\* the error is returned, and neither a later call nor the flush is made.
C6_Witness ==
    /\ enc # NoEnc
    /\ enc.sink.kind = "short" /\ enc.sink.at = 2
    /\ enc.err /\ enc.flushes = 0 /\ enc.writes = 1
    /\ Len(enc.calls) < Len(encode(enc.val, Handle).ev)

SinkWrites ==
    {"writeUint16", "writeUint32", "writeUint64", "writeb", "writestr",
     "writen1", "writen2", "writen3", "writen4"}

\* C8: in every state of the buffer-backed sink, from any caller slice and
\* after any writes (empty ones too), cursor <= len(buffer) <= capacity; the
\* capacity never decreases; a write of n bytes changes the capacity only when
\* cursor + n exceeds the capacity C, and then to exactly 2*C + n, with the
\* bytes before the cursor preserved.
C8_GrowthLaw ==
    /\ 0 <= z.c /\ z.c <= z.len /\ z.len <= Cap(z)
    /\ wr.op # "new" => Cap(z) >= wr.cap0
    /\ wr.op \in SinkWrites =>
          /\ z.c = wr.c0 + wr.n
          /\ Cap(z) = IF wr.c0 + wr.n > wr.cap0 THEN 2 * wr.cap0 + wr.n ELSE wr.cap0
          /\ SubSeq(z.b, 1, wr.c0) = SubSeq(written, 1, wr.c0)

\* C8 witness: a write that did not fit the default 64-byte buffer made for a
\* nil caller slice, with bytes already written before it.
C8_Witness ==
    /\ wr.op \in SinkWrites
    /\ wr.cap0 = defEncByteBufSize
    /\ wr.c0 > 0
    /\ wr.c0 + wr.n > wr.cap0
    /\ Cap(z) = 2 * defEncByteBufSize + wr.n

\* C10: after any writes followed by flush the caller's slice is exactly the
\* in-order concatenation of every byte written since the sink was made
\* (integers big-endian), whatever reallocations happened and whatever earlier
\* calls flushed (the cursor is not reset); an aborted call leaves the header
\* of the caller's slice as it was when the call began.
C10_FlushOutput ==
    /\ wr.op = "flush" =>
          /\ ~out.isNil
          /\ out.len = z.c
          /\ OutBytes = written
    /\ wr.op = "abort" => OutHeader(out) = wr.out0

\* C10 witness: a flush after a reallocation and a 16-bit integer write, the
\* bytes written exceeding the caller's original slice.
C10_Witness ==
    /\ wr.op = "flush"
    /\ z.gen > 0
    /\ \E i \in 1..(Len(written) - 1) : written[i] = 255 /\ written[i + 1] = 1
    /\ OutBytes = written

\* The seconds lie in the signed 32-bit range, both bounds included.
InInt32Range(t) == ~Lt64(t, MinInt32) /\ ~Lt64(MaxInt32, t)

\* C9: the seconds take 4 bytes exactly when Unix seconds lie in the signed
\* 32-bit range, bounds included, and 8 otherwise; the length is that, plus 4
\* for non-zero nanoseconds, plus 2 for a zone other than UTC, plus 1 pad byte
\* for the 8-byte form with zero nanoseconds; always between 4 and 14 bytes.
C9_TimeLength ==
    tin # NoTime =>
        /\ Len(tout) = (IF InInt32Range(tin.secs) THEN 4 ELSE 8)
                         + (IF tin.nsecs # 0 THEN 4 ELSE 0)
                         + (IF ~tin.utc THEN 2 ELSE 0)
                         + (IF ~InInt32Range(tin.secs) /\ tin.nsecs = 0 THEN 1 ELSE 0)
        /\ Len(tout) >= 4 /\ Len(tout) <= 14

\* C7: after any sequence of registrations and removals, lookup(T) yields the
\* tag and function of the most recent registration of T when that one had a
\* non-nil function and not-found otherwise, below and from the linear-scan
\* threshold on; the list and the map hold the same entries, one per type.
C7_RegistryLookup ==
    /\ \A t \in RegTypes : getEncodeExt(o, t) = last[t]
    /\ look.rt # NoType => [fn |-> look.fn, tag |-> look.tag] = last[look.rt]
    /\ Len(o.exts) = Cardinality(DOMAIN o.extFuncs)
    /\ ExtsTypes = DOMAIN o.extFuncs
    /\ \A i \in 1..Len(o.exts) :
          o.extFuncs[o.exts[i].rt] = [fn |-> o.exts[i].fn, tag |-> o.exts[i].tag]
    /\ Len(o.exts) <= o.cap \/ o.isNil

\* C7 witness: a registry at the threshold from which one type was removed
\* while the others are still found, and a lookup of the removed type was made.
C7_Witness ==
    /\ Len(o.exts) >= mapAccessThreshold
    /\ \E t \in RegTypes : t \notin DOMAIN o.extFuncs /\ look.rt = t /\ look.fn = NilFn
    /\ \E t \in DOMAIN o.extFuncs : o.extFuncs[t].tag = 2 /\ getEncodeExt(o, t).tag = 2

====
